---- MODULE Spec2Model ----
(***************************************************************************)
(* QuickBooks pricing-markup reporter: OAuth credential lifecycle,         *)
(* paginated retrieval, delta computation and the scheduled batch run.     *)
(*                                                                         *)
(* Conventions                                                             *)
(*   - Python None, and a key that a JSON response omits, are the value    *)
(*     None; dict.get(k, d) is Get(v, d).                                  *)
(*   - Instants are seconds on an integer clock `now`.                     *)
(*   - Tokens are positive integers handed out by the token endpoint.      *)
(***************************************************************************)
EXTENDS Integers, Sequences, FiniteSets, TLC

(***************************************************************************)
(* Bounds of the model                                                     *)
(***************************************************************************)
MaxTime == 5400
MaxIssued == 8
MaxUpstream == 201
MaxQueries == 4
MaxRows == 2
MaxBatchUpstream == 2
MaxItems == 2
MaxLines == 2

Tenants == {"r1", "r2"}
TickSteps == {900}
ResponseTTLs == {1800}
RefreshTokenTTLs == {8726400}

(***************************************************************************)
(* Program constants                                                       *)
(***************************************************************************)
None == -1
DefaultExpiresIn == 3600
page_size == 100

Kinds == {"inventory", "purchase"}

VARIABLES
    store,      \* companies table: realm_id -> credential row
    now,        \* datetime.utcnow()
    issued,     \* number of tokens the token endpoint has handed out
    last,       \* record of the last credential operation (history)
    upstream,   \* realm_id -> kind -> number of matching upstream records
    rt,         \* the retriever that is running (QBAPIRetriever instance)
    log_file,   \* the file at save_file_path: whether it exists, and its lines
    purchase_transactions_df,   \* normalized purchase table
    inventory_pricing_df,       \* normalized inventory table
    report,                     \* what serve() computed from the two tables
    jobs,       \* jobs table: realm_id -> schedule and last_run_ts
    job_order,  \* row order of db.query(job).all()
    batch,      \* run_scheduled_jobs: jobs_to_run, position, status
    pc,         \* position of PricingDeltaServer.serve for the current job
    outbox,     \* calls of email_sender.send_email, with their outcome
    results,    \* realm_id -> outcome of the report entry point in this batch
    raw_page,   \* the response handed to a normalizer (_extract_cols)
    extracted,  \* what _extract_cols made of raw_page
    formatted,  \* results of format_pricing_delta_to_html for report, one per run
    done_runs,  \* the retrievers of the retrieval runs that are over, in order
    replayed,   \* what QBFileRetriever.retrieve made of log_file
    threads,    \* concurrent callers of refresh_access_token: position and locals
    race        \* newest refresh token the endpoint issued; whether refreshes overlapped

authVars == <<store, now, issued, last>>
retrVars == <<upstream, rt, log_file>>
deltaVars == <<purchase_transactions_df, inventory_pricing_df, report>>
batchVars == <<jobs, job_order, batch, pc, outbox, results>>
batchVarsButPc == <<jobs, job_order, batch, outbox, results>>
normVars == <<raw_page, extracted>>
formatVars == <<formatted>>
fileVars == <<done_runs, replayed>>
raceVars == <<threads, race>>
otherVars == <<retrVars, deltaVars, batchVars, normVars, formatVars, fileVars, raceVars>>
vars == <<authVars, retrVars, deltaVars, batchVars, normVars, formatVars, fileVars, raceVars>>

Get(v, d) == IF v = None THEN d ELSE v

(***************************************************************************)
(* Token endpoint (oauth.platform.intuit.com): either the request fails    *)
(* (network error, non-2xx: raise_for_status raises RequestException) or   *)
(* it answers with a token bundle.  A bundle always carries an access      *)
(* token; a new refresh token and expires_in are optional.                 *)
(***************************************************************************)
NoJson ==
    [access_token |-> None, refresh_token |-> None, expires_in |-> None,
     x_refresh_token_expires_in |-> None]

FailedResponse == [ok |-> FALSE, json |-> NoJson]

TokenResponses(n) ==
    {FailedResponse} \cup
    { [ok |-> TRUE,
       json |-> [access_token |-> n + 1, refresh_token |-> rot, expires_in |-> ttl,
                 x_refresh_token_expires_in |-> rttl]] :
        rot \in {None, n + 2}, ttl \in {None} \cup ResponseTTLs,
        rttl \in RefreshTokenTTLs }

ExchangeResponses(n) ==
    {FailedResponse} \cup
    { [ok |-> TRUE,
       json |-> [access_token |-> n + 1, refresh_token |-> n + 2, expires_in |-> ttl,
                 x_refresh_token_expires_in |-> rttl]] :
        ttl \in {None} \cup ResponseTTLs, rttl \in RefreshTokenTTLs }

(***************************************************************************)
(* Credential store                                                        *)
(***************************************************************************)
\* Every column of the companies table is declared nullable=False: a commit
\* that would write NULL into one of them raises IntegrityError.
commit_ok(company) ==
    /\ company.access_token # None
    /\ company.refresh_token # None
    /\ company.expires_in # None
    /\ company.refresh_token_expires_in # None
    /\ company.expires_at # None

\* QBOOAuthManager.store_tokens: insert or update the row; any exception
\* (the failed commit included) is logged and swallowed after a rollback.
store_tokens(st, realm_id, token_data, t) ==
    LET company == [access_token |-> token_data.access_token,
                    refresh_token |-> token_data.refresh_token,
                    expires_in |-> token_data.expires_in,
                    refresh_token_expires_in |-> token_data.x_refresh_token_expires_in,
                    expires_at |-> t + Get(token_data.expires_in, DefaultExpiresIn)]
    IN  IF commit_ok(company)
        THEN [r \in DOMAIN st \cup {realm_id} |-> IF r = realm_id THEN company ELSE st[r]]
        ELSE st

\* except requests.exceptions.RequestException: log and return None; the
\* session is closed without any write.
keep_on_request_error_mutant(st, realm_id) ==
    [r \in DOMAIN st \ {realm_id} |-> st[r]]

on_request_exception(st, realm_id) == st

\* token_data.get('refresh_token', refresh_token)
rotated_refresh_token_mutant(token_data, refresh_token) == refresh_token

rotated_refresh_token(token_data, refresh_token) ==
    Get(token_data.refresh_token, refresh_token)

\* QBOOAuthManager.refresh_access_token.  `response` is what the token
\* endpoint answers if it is called.  Result: the store afterwards, the
\* returned dict (<<>> is None, <<d>> is the dict d) and whether the
\* endpoint was called.
refresh_access_token(st, realm_id, response, t) ==
    IF realm_id \notin DOMAIN st
    THEN [store |-> st, info |-> <<>>, called |-> FALSE]
    ELSE IF st[realm_id].refresh_token = None
    THEN [store |-> st, info |-> <<>>, called |-> FALSE]
    ELSE IF ~response.ok
    THEN [store |-> on_request_exception(st, realm_id), info |-> <<>>, called |-> TRUE]
    ELSE
      LET token_data == response.json
          refresh_token == st[realm_id].refresh_token
          company == [access_token |-> token_data.access_token,
                      refresh_token |-> rotated_refresh_token(token_data, refresh_token),
                      expires_in |-> token_data.expires_in,
                      refresh_token_expires_in |-> token_data.x_refresh_token_expires_in,
                      expires_at |-> t + Get(token_data.expires_in, DefaultExpiresIn)]
      IN  IF commit_ok(company)
          THEN [store |-> [st EXCEPT ![realm_id] = company],
                info |-> << [access_token |-> company.access_token,
                             refresh_token |-> company.refresh_token,
                             expires_in |-> company.expires_in,
                             expires_at |-> company.expires_at] >>,
                called |-> TRUE]
          ELSE [store |-> st, info |-> <<>>, called |-> TRUE]

\* if expires_at and datetime.utcnow() >= expires_at
is_expired_mutant(expires_at, t) == expires_at # None

is_expired(expires_at, t) == expires_at # None /\ t >= expires_at

\* if not company: return None (nothing is added to the session)
no_company_mutant(st, realm_id) ==
    [store |-> [r \in DOMAIN st \cup {realm_id} |->
                   IF r = realm_id
                   THEN [access_token |-> None, refresh_token |-> None,
                         expires_in |-> None, refresh_token_expires_in |-> None,
                         expires_at |-> None]
                   ELSE st[r]],
     ret |-> None, called |-> FALSE]

no_company(st, realm_id) == [store |-> st, ret |-> None, called |-> FALSE]

\* QBOOAuthManager.get_valid_access_token_not_throws
get_valid_access_token_not_throws(st, realm_id, response, t) ==
    IF realm_id \notin DOMAIN st
    THEN no_company(st, realm_id)
    ELSE IF st[realm_id].access_token = None
    THEN [store |-> st, ret |-> None, called |-> FALSE]
    ELSE IF is_expired(st[realm_id].expires_at, t)
    THEN LET refreshed == refresh_access_token(st, realm_id, response, t)
         IN  [store |-> refreshed.store,
              ret |-> IF refreshed.info # <<>> THEN refreshed.info[1].access_token ELSE None,
              called |-> refreshed.called]
    ELSE [store |-> st, ret |-> st[realm_id].access_token, called |-> FALSE]

\* QBOOAuthManager.is_company_connected
is_company_connected(st, realm_id, response, t) ==
    LET r == get_valid_access_token_not_throws(st, realm_id, response, t)
    IN  [store |-> r.store, ret |-> r.ret # None, called |-> r.called]

\* QBOOAuthManager.disconnect_company: TRUE iff a row was deleted
disconnect_company_mutant(st, realm_id) ==
    IF realm_id \in DOMAIN st
    THEN [store |-> << >>, ret |-> TRUE]
    ELSE [store |-> st, ret |-> FALSE]

disconnect_company(st, realm_id) ==
    IF realm_id \in DOMAIN st
    THEN [store |-> [r \in DOMAIN st \ {realm_id} |-> st[r]], ret |-> TRUE]
    ELSE [store |-> st, ret |-> FALSE]

\* QBOOAuthManager.exchange_code_for_tokens: raise_for_status is not caught,
\* a failed call leaves as RequestException; otherwise the bundle is returned.
exchange_code_for_tokens_mutant(response) ==
    IF response.ok THEN [raised |-> FALSE, ret |-> <<response.json>>]
    ELSE [raised |-> FALSE, ret |-> <<>>]

exchange_code_for_tokens(response) ==
    IF response.ok THEN [raised |-> FALSE, ret |-> <<response.json>>]
    ELSE [raised |-> TRUE, ret |-> <<>>]

\* QBOOAuthManager.handle_oauth_callback with a code and a realmId
handle_oauth_callback(st, realm_id, response, t) ==
    LET exchanged == exchange_code_for_tokens(response)
    IN  IF exchanged.raised
        THEN [store |-> st, raised |-> TRUE, error |-> "RequestException"]
        ELSE IF exchanged.ret # <<>>
        THEN [store |-> store_tokens(st, realm_id, exchanged.ret[1], t),
              raised |-> FALSE, error |-> ""]
        ELSE [store |-> st, raised |-> TRUE, error |-> "ValueError"]

\* Tokens the endpoint hands out while answering `response`
Consumed(called, response) == IF called /\ response.ok THEN 2 ELSE 0

(***************************************************************************)
(* Credential operations as steps                                          *)
(***************************************************************************)
NoOp ==
    [op |-> "none", realm |-> "r1", ret |-> None, raised |-> FALSE, error |-> "",
     pre |-> << >>, response |-> FailedResponse, called |-> FALSE, at |-> 0]

NoRetriever ==
    [kind |-> "inventory", realm_id |-> "r1", save_file_path |-> FALSE,
     start_pos |-> 1, responses |-> <<>>, answers |-> <<>>, queries |-> <<>>,
     status |-> "idle", error |-> ""]

BatchIdle ==
    /\ jobs = << >>
    /\ job_order = <<>>
    /\ batch = [jobs_to_run |-> <<>>, i |-> 0, status |-> "idle"]
    /\ pc = "idle"
    /\ outbox = <<>>
    /\ results = [r \in Tenants |-> "none"]

MaxRefreshers == 2
Refreshers == 1..MaxRefreshers

NoRow ==
    [access_token |-> None, refresh_token |-> None, expires_in |-> None,
     refresh_token_expires_in |-> None, expires_at |-> None]

\* A caller that has not entered refresh_access_token
IdleThread == [pc |-> "idle", company |-> NoRow, token_data |-> NoJson, ret |-> None]

RaceIdle ==
    /\ threads = [w \in Refreshers |-> IdleThread]
    /\ race = [newest |-> None, overlapped |-> FALSE]

\* No file at save_file_path
NoFile == [exists |-> FALSE, lines |-> <<>>]

NoReplay == [done |-> FALSE, raised |-> FALSE, responses |-> <<>>]

FileIdle ==
    /\ done_runs = <<>>
    /\ replayed = NoReplay

NoPage == [kind |-> "inventory", QueryResponse |-> FALSE, key |-> FALSE, records |-> <<>>]

NoTable == [done |-> FALSE, raised |-> FALSE, rows |-> <<>>]

NormIdle ==
    /\ raw_page = NoPage
    /\ extracted = NoTable

DeltaIdle ==
    /\ purchase_transactions_df = <<>>
    /\ inventory_pricing_df = <<>>
    /\ report = [done |-> FALSE, joined |-> FALSE, pricing_delta_df |-> <<>>, message |-> ""]

AuthInit ==
    /\ store = << >>
    /\ now = 0
    /\ issued = 0
    /\ last = NoOp
    /\ upstream = [r \in Tenants |-> [k \in Kinds |-> 0]]
    /\ rt = NoRetriever
    /\ log_file = NoFile
    /\ DeltaIdle
    /\ BatchIdle
    /\ NormIdle
    /\ formatted = <<>>
    /\ FileIdle
    /\ RaceIdle

\* The OAuth callback of a tenant arrives
Connect(realm_id) ==
    \E response \in ExchangeResponses(issued) :
        LET r == handle_oauth_callback(store, realm_id, response, now)
        IN  /\ issued + 2 <= MaxIssued
            /\ store' = r.store
            /\ issued' = issued + Consumed(TRUE, response)
            /\ last' = [op |-> "connect", realm |-> realm_id, ret |-> None,
                        raised |-> r.raised, error |-> r.error, pre |-> store,
                        response |-> response, called |-> TRUE, at |-> now]
            /\ UNCHANGED now

GetValidAccessToken(realm_id) ==
    \E response \in TokenResponses(issued) :
        LET r == get_valid_access_token_not_throws(store, realm_id, response, now)
        IN  /\ issued + Consumed(r.called, response) <= MaxIssued
            /\ store' = r.store
            /\ issued' = issued + Consumed(r.called, response)
            /\ last' = [op |-> "get_valid", realm |-> realm_id, ret |-> r.ret,
                        raised |-> FALSE, error |-> "", pre |-> store, response |-> response,
                        called |-> r.called, at |-> now]
            /\ UNCHANGED now

Refresh(realm_id) ==
    \E response \in TokenResponses(issued) :
        LET r == refresh_access_token(store, realm_id, response, now)
        IN  /\ issued + Consumed(r.called, response) <= MaxIssued
            /\ store' = r.store
            /\ issued' = issued + Consumed(r.called, response)
            /\ last' = [op |-> "refresh", realm |-> realm_id,
                        ret |-> IF r.info # <<>> THEN r.info[1].access_token ELSE None,
                        raised |-> FALSE, error |-> "", pre |-> store, response |-> response,
                        called |-> r.called, at |-> now]
            /\ UNCHANGED now

Disconnect(realm_id) ==
    LET r == disconnect_company(store, realm_id)
    IN  /\ store' = r.store
        /\ last' = [op |-> "disconnect", realm |-> realm_id,
                    ret |-> IF r.ret THEN 1 ELSE 0,
                    raised |-> FALSE, error |-> "", pre |-> store,
                    response |-> FailedResponse,
                    called |-> FALSE, at |-> now]
        /\ UNCHANGED <<now, issued>>

Tick ==
    \E d \in TickSteps :
        /\ now + d <= MaxTime
        /\ now' = now + d
        /\ UNCHANGED <<store, issued, last>>

AuthNext ==
    \/ (\E realm_id \in Tenants : Connect(realm_id)) /\ UNCHANGED otherVars
    \/ (\E realm_id \in Tenants : GetValidAccessToken(realm_id)) /\ UNCHANGED otherVars
    \/ (\E realm_id \in Tenants : Refresh(realm_id)) /\ UNCHANGED otherVars
    \/ (\E realm_id \in Tenants : Disconnect(realm_id)) /\ UNCHANGED otherVars
    \/ Tick /\ UNCHANGED otherVars

(***************************************************************************)
(* Paginated retriever (retrievers/qb_api_retriever.py and subclasses)     *)
(*                                                                         *)
(* The upstream collection of a tenant and kind is the records 1..M.  A    *)
(* page is [start, n, key]: the records start..start+n-1, and whether the  *)
(* collection key ("Item" / "Bill") is present in QueryResponse.           *)
(***************************************************************************)
SeqsUpTo(S, n) == UNION { [1..k -> S] : k \in 0..n }

Min(a, b) == IF a <= b THEN a ELSE b
Max(a, b) == IF a >= b THEN a ELSE b

\* Query string built by _call_api_once.  The inventory query carries
\* STARTPOSITION and MAXRESULTS; the Bill query carries neither.
query_params(kind, start_pos) ==
    IF kind = "inventory"
    THEN [start |-> start_pos, max |-> page_size]
    ELSE [start |-> None, max |-> None]

\* QuickBooks query endpoint: a query without STARTPOSITION starts at 1 and
\* one without MAXRESULTS returns at most 100 records.  An empty selection
\* comes back either as an empty list or with the collection key omitted.
UpstreamAnswers(M, q) ==
    LET s == Get(q.start, 1)
        m == Get(q.max, 100)
        n == Max(0, Min(m, M - s + 1))
    IN  { [start |-> s, n |-> n, key |-> k] :
            k \in IF n = 0 THEN BOOLEAN ELSE {TRUE} }

\* QBAPIRetriever.__init__
new_retriever(kind, realm_id, save_file_path) ==
    [kind |-> kind, realm_id |-> realm_id, save_file_path |-> save_file_path,
     start_pos |-> 1, responses |-> <<>>, answers |-> <<>>, queries |-> <<>>,
     status |-> "new", error |-> ""]

\* json.dumps(response) + '\n'
json_dumps(doc) == [json |-> "object", value |-> doc]

RECURSIVE dump_all(_)
dump_all(responses) ==
    IF responses = <<>> THEN <<>>
    ELSE <<json_dumps(Head(responses))>> \o dump_all(Tail(responses))

\* One iteration of the loop of _call_api once the HTTP answer `page` is in:
\* len(response_json['QueryResponse'][key]) raises KeyError when the key is
\* absent; otherwise the page is appended and a short page ends the loop.
call_api_step(r, page) ==
    LET seen == [r EXCEPT !.answers = Append(@, page)]
    IN  IF ~page.key
        THEN [seen EXCEPT !.status = "raised", !.error = "KeyError"]
        ELSE IF page.n < page_size
        THEN [seen EXCEPT !.responses = Append(@, page), !.status = "fetched"]
        ELSE [seen EXCEPT !.responses = Append(@, page),
                          !.start_pos = @ + page_size]

\* open(save_file_path, mode) followed by the writes of `lines`
open_a_and_write_mutant(file, lines) == [exists |-> TRUE, lines |-> lines]

open_a_and_write(file, lines) == [exists |-> TRUE, lines |-> file.lines \o lines]

\* Tail of retrieve(): append every response to the file when a path is set
retrieve_tail(r, file) ==
    IF r.status = "fetched"
    THEN [rt |-> [r EXCEPT !.status = "returned"],
          file |-> IF r.save_file_path
                   THEN open_a_and_write(file, dump_all(r.responses))
                   ELSE file]
    ELSE [rt |-> r, file |-> file]

TokenOp(op, realm_id, r, response) ==
    [op |-> op, realm |-> realm_id, ret |-> r.ret, raised |-> FALSE, error |-> "",
     pre |-> store,
     response |-> response, called |-> r.called, at |-> now]

\* get_headers: the bearer token of a request is the access token the
\* token manager hands out for this request
get_headers_mutant(r, access_token) ==
    IF r.queries # <<>> THEN r.queries[1].token ELSE access_token

get_headers(r, access_token) == access_token

\* retrieve(), first statement: is_company_connected or raise
RetrieveStart ==
    /\ rt.status = "new"
    /\ \E response \in TokenResponses(issued) :
        LET r == get_valid_access_token_not_throws(store, rt.realm_id, response, now)
        IN  /\ issued + Consumed(r.called, response) <= MaxIssued
            /\ store' = r.store
            /\ issued' = issued + Consumed(r.called, response)
            /\ last' = TokenOp("get_valid", rt.realm_id, r, response)
            /\ rt' = IF r.ret # None
                     THEN [rt EXCEPT !.status = "running"]
                     ELSE [rt EXCEPT !.status = "raised", !.error = "not_connected"]
    /\ UNCHANGED <<now, upstream, log_file, deltaVars, batchVars, normVars, formatVars, fileVars, raceVars>>

\* One _call_api_once: get_headers (a token fetched for this request), the
\* GET, raise_for_status, the item count; then the loop test of _call_api
\* and, after the last page, the tail of retrieve().
CallApiOnce ==
    /\ rt.status = "running"
    /\ Len(rt.queries) < MaxQueries
    /\ \E response \in TokenResponses(issued), http_ok \in BOOLEAN :
        LET r == get_valid_access_token_not_throws(store, rt.realm_id, response, now)
            q == query_params(rt.kind, rt.start_pos)
            sent == [rt EXCEPT !.queries = Append(@, [start |-> q.start, max |-> q.max,
                                                      token |-> get_headers(rt, r.ret)])]
        IN  /\ issued + Consumed(r.called, response) <= MaxIssued
            /\ store' = r.store
            /\ issued' = issued + Consumed(r.called, response)
            /\ last' = TokenOp("get_valid", rt.realm_id, r, response)
            /\ IF r.ret = None
               THEN /\ rt' = [rt EXCEPT !.status = "raised", !.error = "no_token"]
                    /\ UNCHANGED log_file
               ELSE IF ~http_ok
               THEN /\ rt' = [sent EXCEPT !.status = "raised", !.error = "http"]
                    /\ UNCHANGED log_file
               ELSE \E page \in UpstreamAnswers(upstream[rt.realm_id][rt.kind], q) :
                        LET done == retrieve_tail(call_api_step(sent, page), log_file)
                        IN  /\ rt' = done.rt
                            /\ log_file' = done.file
    /\ UNCHANGED <<now, upstream, deltaVars, batchVars, normVars, formatVars, fileVars, raceVars>>

RetrTick == Tick /\ UNCHANGED <<retrVars, deltaVars, batchVars, normVars, formatVars, fileVars, raceVars>>

\* A credential of the tenant as the connect flow leaves it at instant 0
ConnectedStore(realm_id) ==
    store_tokens(<< >>, realm_id,
                 [access_token |-> 1, refresh_token |-> 2, expires_in |-> 1800,
                  x_refresh_token_expires_in |-> CHOOSE x \in RefreshTokenTTLs : TRUE], 0)

UpstreamSizes ==
    { m \in 0..MaxUpstream : (m % page_size) \in {0, 1, page_size - 1} }

RetrInit ==
    /\ now = 0
    /\ last = NoOp
    /\ log_file = NoFile
    /\ \E connected \in BOOLEAN :
        /\ store = IF connected THEN ConnectedStore("r1") ELSE << >>
        /\ issued = IF connected THEN 2 ELSE 0
    /\ \E m \in UpstreamSizes : upstream = [r \in Tenants |-> [k \in Kinds |-> m]]
    /\ \E kind \in Kinds, save \in BOOLEAN : rt = new_retriever(kind, "r1", save)
    /\ DeltaIdle
    /\ BatchIdle
    /\ NormIdle
    /\ formatted = <<>>
    /\ FileIdle
    /\ RaceIdle

RetrNext ==
    \/ RetrieveStart
    \/ CallApiOnce
    \/ RetrTick

(***************************************************************************)
(* refresh_access_token called by several threads for one tenant           *)
(*                                                                         *)
(* Each caller has its own session: it loads the row, posts the refresh    *)
(* token it loaded, and commits.  Nothing in the code serializes callers.  *)
(***************************************************************************)
RaceRealm == "r1"

\* company = db.query(...).first(); refresh_token = company.refresh_token
RefreshRead(w) ==
    /\ threads[w].pc = "idle"
    /\ threads' =
          IF RaceRealm \notin DOMAIN store
          THEN [threads EXCEPT ![w].pc = "done"]
          ELSE IF store[RaceRealm].refresh_token = None
          THEN [threads EXCEPT ![w].pc = "done"]
          ELSE [threads EXCEPT ![w].pc = "read", ![w].company = store[RaceRealm]]
    /\ race' = [race EXCEPT !.overlapped =
                   @ \/ \E v \in Refreshers \ {w} : threads[v].pc \in {"read", "posted"}]
    /\ UNCHANGED authVars

\* requests.post, raise_for_status, response.json(): the endpoint answers
\* the refresh token the caller loaded
RefreshPost(w) ==
    /\ threads[w].pc = "read"
    /\ \E response \in TokenResponses(issued) :
        /\ issued + Consumed(TRUE, response) <= MaxIssued
        /\ issued' = issued + Consumed(TRUE, response)
        /\ IF ~response.ok
           THEN /\ threads' = [threads EXCEPT ![w].pc = "done"]
                /\ UNCHANGED race
           ELSE /\ threads' = [threads EXCEPT ![w].pc = "posted",
                                              ![w].token_data = response.json]
                /\ race' = [race EXCEPT !.newest = Get(response.json.refresh_token, @)]
    /\ UNCHANGED <<store, now, last>>

\* db.commit() of a session: the UPDATE carries the attributes whose value
\* differs from the loaded one; the other columns keep what the table holds
flush_mutant(current, loaded, company) ==
    [f \in DOMAIN company |-> IF f = "refresh_token" THEN current[f] ELSE company[f]]

flush(current, loaded, company) ==
    [f \in DOMAIN company |-> IF company[f] # loaded[f] THEN company[f] ELSE current[f]]

\* The assignments to company, db.commit(), the returned dict
RefreshCommit(w) ==
    /\ threads[w].pc = "posted"
    /\ LET token_data == threads[w].token_data
           loaded == threads[w].company
           company == [access_token |-> token_data.access_token,
                       refresh_token |->
                           rotated_refresh_token(token_data, loaded.refresh_token),
                       expires_in |-> token_data.expires_in,
                       refresh_token_expires_in |-> token_data.x_refresh_token_expires_in,
                       expires_at |-> now + Get(token_data.expires_in, DefaultExpiresIn)]
       IN  IF commit_ok(company) /\ RaceRealm \in DOMAIN store
           THEN /\ store' = [store EXCEPT ![RaceRealm] = flush(@, loaded, company)]
                /\ threads' = [threads EXCEPT ![w].pc = "done",
                                              ![w].ret = company.access_token]
           ELSE /\ threads' = [threads EXCEPT ![w].pc = "done"]
                /\ UNCHANGED store
    /\ UNCHANGED <<now, issued, last, race>>

RaceInit ==
    /\ store = ConnectedStore(RaceRealm)
    /\ now \in {0, 1800}
    /\ issued = 2
    /\ last = NoOp
    /\ upstream = [r \in Tenants |-> [k \in Kinds |-> 0]]
    /\ rt = NoRetriever
    /\ log_file = NoFile
    /\ DeltaIdle
    /\ BatchIdle
    /\ NormIdle
    /\ formatted = <<>>
    /\ FileIdle
    /\ RaceIdle

RaceUnchanged == UNCHANGED <<retrVars, deltaVars, batchVars, normVars, formatVars, fileVars>>

RaceNext ==
    \/ (\E w \in Refreshers : RefreshRead(w)) /\ RaceUnchanged
    \/ (\E w \in Refreshers : RefreshPost(w)) /\ RaceUnchanged
    \/ (\E w \in Refreshers : RefreshCommit(w)) /\ RaceUnchanged

(***************************************************************************)
(* Log replay (QBFileRetriever) and repeated runs on one log path          *)
(*                                                                         *)
(* A line of the file is the text of a JSON object, the text of a JSON     *)
(* string (whose content is again a text), a text that is not JSON, or     *)
(* blank.  A decoded value is a dict or a str.                             *)
(***************************************************************************)
MaxRetrieverRuns == 2
MaxFileLines == 3

BlankLine == [json |-> "blank", value |-> None]
InvalidText == [json |-> "invalid", value |-> None]
\* json.dumps(text) of a str
json_dumps_str(text) == [json |-> "string", value |-> text]

PyDict(doc) == [type |-> "dict", value |-> doc]
PyStr(text) == [type |-> "str", value |-> text]

\* json.loads(text): the decoded value, or JSONDecodeError
json_loads(text) ==
    IF text.json = "object" THEN [raised |-> FALSE, value |-> PyDict(text.value)]
    ELSE IF text.json = "string" THEN [raised |-> FALSE, value |-> PyStr(text.value)]
    ELSE [raised |-> TRUE, value |-> PyStr(text)]

\* Body of the loop of QBFileRetriever.retrieve for one non-blank line: a
\* line that decodes to a str is decoded again; a JSONDecodeError of either
\* decoding falls back to json.loads(line), whose error is not caught.
read_line_mutant(line) == json_loads(line)

read_line(line) ==
    LET parsed == json_loads(line)
    IN  IF parsed.raised THEN parsed
        ELSE IF parsed.value.type = "str"
        THEN LET inner == json_loads(parsed.value.value)
             IN  IF inner.raised THEN parsed ELSE inner
        ELSE parsed

RECURSIVE read_lines(_)
read_lines(lines) ==
    IF lines = <<>> THEN [raised |-> FALSE, responses |-> <<>>]
    ELSE IF Head(lines).json = "blank" THEN read_lines(Tail(lines))
    ELSE LET e == read_line(Head(lines))
             rest == read_lines(Tail(lines))
         IN  IF e.raised \/ rest.raised
             THEN [raised |-> TRUE, responses |-> <<>>]
             ELSE [raised |-> FALSE, responses |-> <<e.value>> \o rest.responses]

\* QBFileRetriever.retrieve
file_retrieve(file) ==
    IF ~file.exists THEN [raised |-> FALSE, responses |-> <<>>]
    ELSE read_lines(file.lines)

FileRetrieve ==
    /\ ~replayed.done
    /\ LET r == file_retrieve(log_file)
       IN  replayed' = [done |-> TRUE, raised |-> r.raised, responses |-> r.responses]
    /\ UNCHANGED <<authVars, retrVars, deltaVars, batchVars, normVars, formatVars, done_runs, raceVars>>

\* The run of rt is over and another retriever is constructed for the same
\* tenant, kind and save_file_path
NewRun ==
    /\ ~replayed.done
    /\ rt.status \in {"returned", "raised"}
    /\ Len(done_runs) + 1 < MaxRetrieverRuns
    /\ done_runs' = Append(done_runs, rt)
    /\ rt' = new_retriever(rt.kind, rt.realm_id, rt.save_file_path)
    /\ UNCHANGED <<authVars, upstream, log_file, deltaVars, batchVars, normVars,
                   formatVars, replayed, raceVars>>

\* Retrieval runs within the life of one access token (the clock stands
\* still, so the token endpoint is not called and its answer is fixed),
\* then one replay of the log.
ReplayNext ==
    \/ ~replayed.done /\ RetrieveStart /\ last'.response = FailedResponse
    \/ ~replayed.done /\ CallApiOnce /\ last'.response = FailedResponse
    \/ NewRun
    \/ FileRetrieve

FilePages == { [start |-> 1, n |-> 1, key |-> TRUE], [start |-> 101, n |-> 0, key |-> TRUE] }

FileLines ==
    {BlankLine, InvalidText, json_dumps_str(InvalidText)}
    \cup { json_dumps(p) : p \in FilePages }
    \cup { json_dumps_str(json_dumps(p)) : p \in FilePages }
    \cup { json_dumps_str(json_dumps_str(json_dumps(p))) : p \in FilePages }

Files ==
    {NoFile} \cup { [exists |-> TRUE, lines |-> l] : l \in SeqsUpTo(FileLines, MaxFileLines) }

FileInit ==
    /\ store = << >>
    /\ now = 0
    /\ issued = 0
    /\ last = NoOp
    /\ upstream = [r \in Tenants |-> [k \in Kinds |-> 0]]
    /\ rt = NoRetriever
    /\ log_file \in Files
    /\ DeltaIdle
    /\ BatchIdle
    /\ NormIdle
    /\ formatted = <<>>
    /\ FileIdle
    /\ RaceIdle

(***************************************************************************)
(* Delta computation (PricingDeltaServer.get_pricing_delta, the empty-     *)
(* table branches of serve, PricingDeltaProcessNode.process)               *)
(*                                                                         *)
(* Prices are integer cents.  A float column value is Num(v), NaN or       *)
(* Inf(sign); pricing_perc_delta is kept in hundredths of a percent.       *)
(***************************************************************************)
Num(v) == [kind |-> "num", v |-> v]
NaN == [kind |-> "nan", v |-> 0]
Inf(sign) == [kind |-> "inf", v |-> sign]

ProductNames == {"Widget A", "Widget B", "Widget C"}
PurchasePrices == {0, 500, 700}
InventoryPrices == {0, 600}

PurchaseRows ==
    { [product_name |-> name, purchase_quantity |-> 2, purchase_price |-> price,
       purchase_amount |-> 2 * price, purchase_transaction_date |-> "2025-07-31"] :
        name \in ProductNames, price \in PurchasePrices }

InventoryRows ==
    { [product_name |-> name, inventory_price |-> price] :
        name \in ProductNames, price \in InventoryPrices }

\* float subtraction of two columns
float_sub(a, b) == IF a.kind = "num" THEN Num(a.v - b) ELSE NaN

\* round(a / b * 100, 2) on floats, in hundredths of a percent: division by
\* 0 gives +-inf (NaN for 0/0), NaN propagates, ties round half to even.
round_perc_mutant(a, b) ==
    IF a.kind # "num" THEN NaN
    ELSE IF b = 0 THEN (IF a.v = 0 THEN NaN ELSE Inf(IF a.v > 0 THEN 1 ELSE -1))
    ELSE LET num == a.v * 10000
             sgn == IF (num < 0) # (b < 0) THEN -1 ELSE 1
             an == IF num < 0 THEN -num ELSE num
             ab == IF b < 0 THEN -b ELSE b
         IN  Num(sgn * (an \div ab))

round_perc(a, b) ==
    IF a.kind # "num" THEN NaN
    ELSE IF b = 0 THEN (IF a.v = 0 THEN NaN ELSE Inf(IF a.v > 0 THEN 1 ELSE -1))
    ELSE LET num == a.v * 10000
             sgn == IF (num < 0) # (b < 0) THEN -1 ELSE 1
             an == IF num < 0 THEN -num ELSE num
             ab == IF b < 0 THEN -b ELSE b
             q == an \div ab
             r2 == 2 * (an % ab)
             up == r2 > ab \/ (r2 = ab /\ q % 2 = 1)
         IN  Num(sgn * (IF up THEN q + 1 ELSE q))

\* One row of pd.merge(how='left', indicator='matched') for purchase row p
merged_row(p, inventory_price, matched) ==
    [product_name |-> p.product_name,
     purchase_quantity |-> p.purchase_quantity,
     purchase_price |-> p.purchase_price,
     purchase_amount |-> p.purchase_amount,
     purchase_transaction_date |-> p.purchase_transaction_date,
     inventory_price |-> inventory_price,
     matched |-> matched]

\* Rows that the left join emits for a purchase row without a match
unmatched_rows_mutant(p) == <<>>

unmatched_rows(p) == << merged_row(p, NaN, "left_only") >>

\* pd.merge(purchase, inventory, on='product_name', how='left',
\*          indicator='matched'): left order kept, one output row per
\* matching right row, one left_only row when nothing matches.
RECURSIVE merge_left(_, _)
merge_left(purchase, inventory) ==
    IF purchase = <<>> THEN <<>>
    ELSE LET p == Head(purchase)
             Same(i) == i.product_name = p.product_name
             hits == SelectSeq(inventory, Same)
             rows == IF hits = <<>>
                     THEN unmatched_rows(p)
                     ELSE [k \in 1..Len(hits) |->
                              merged_row(p, Num(hits[k].inventory_price), "both")]
         IN  rows \o merge_left(Tail(purchase), inventory)

\* PricingDeltaServer.get_pricing_delta
get_pricing_delta(purchase, inventory) ==
    LET merged_df == merge_left(purchase, inventory)
        WithDelta(m) ==
            LET pricing_delta == float_sub(m.inventory_price, m.purchase_price)
            IN  [product_name |-> m.product_name,
                 purchase_quantity |-> m.purchase_quantity,
                 purchase_price |-> m.purchase_price,
                 purchase_amount |-> m.purchase_amount,
                 purchase_transaction_date |-> m.purchase_transaction_date,
                 inventory_price |-> m.inventory_price,
                 matched |-> m.matched,
                 pricing_delta |-> pricing_delta,
                 pricing_perc_delta |-> round_perc(pricing_delta, m.purchase_price)]
    IN  [k \in 1..Len(merged_df) |-> WithDelta(merged_df[k])]

\* Which table being empty short-circuits the join, and with what message
\* (serve: if purchase.empty / elif inventory.empty;
\*  PricingDeltaProcessNode.empty_value_reason)
empty_value_reason_mutant(purchase, inventory) ==
    IF inventory = <<>> THEN "No inventory pricing found"
    ELSE IF purchase = <<>> THEN "No purchase transactions found"
    ELSE "slot extraction error"

empty_value_reason(purchase, inventory) ==
    IF purchase = <<>> THEN "No purchase transactions found"
    ELSE IF inventory = <<>> THEN "No inventory pricing found"
    ELSE "slot extraction error"

\* The join is attempted only when neither table is empty
\* (PricingDeltaProcessNode.process; the else branch of serve)
join_attempted_mutant(purchase, inventory) == purchase # <<>>

join_attempted(purchase, inventory) == purchase # <<>> /\ inventory # <<>>

\* serve(), from the two tables to what is handed to the email sender:
\* the delta table, whether the join ran, and the no-data message ("" when
\* a table is rendered).
serve_tables(purchase, inventory) ==
    IF join_attempted(purchase, inventory)
    THEN [done |-> TRUE, joined |-> TRUE,
          pricing_delta_df |-> get_pricing_delta(purchase, inventory),
          message |-> ""]
    ELSE [done |-> TRUE, joined |-> FALSE,
          pricing_delta_df |-> <<>>,
          message |-> empty_value_reason(purchase, inventory)]

NoReport == [done |-> FALSE, joined |-> FALSE, pricing_delta_df |-> <<>>, message |-> ""]

DeltaInit ==
    /\ purchase_transactions_df \in SeqsUpTo(PurchaseRows, MaxRows)
    /\ inventory_pricing_df \in SeqsUpTo(InventoryRows, MaxRows)
    /\ report = NoReport

ComputeDelta ==
    /\ ~report.done
    /\ report' = serve_tables(purchase_transactions_df, inventory_pricing_df)
    /\ UNCHANGED <<purchase_transactions_df, inventory_pricing_df>>

(***************************************************************************)
(* Report formatter (PricingDeltaServer.format_pricing_delta_to_html)      *)
(*                                                                         *)
(* A formatted report is kept as its sorted rows and the column labels of  *)
(* the two views; the HTML and spreadsheet encodings of a view are         *)
(* determined by its rows and columns.                                     *)
(***************************************************************************)
MaxRuns == 2
MaxFormatRows == 2

Range(s) == { s[i] : i \in DOMAIN s }

\* Column labels of the table get_pricing_delta returns: the purchase
\* columns, the inventory price, the merge indicator, the two deltas.
pricing_delta_columns ==
    << "product_name", "purchase_quantity", "purchase_price", "purchase_amount",
       "purchase_transaction_date", "inventory_price", "matched",
       "pricing_delta", "pricing_perc_delta" >>

rename_cols_map ==
    [product_name |-> "Product Name",
     purchase_quantity |-> "Purchase Quantity",
     purchase_amount |-> "Purchase Amount",
     purchase_price |-> "Purchase Price",
     purchase_transaction_date |-> "Purchase Date",
     inventory_price |-> "Inventory Price",
     pricing_delta |-> "Markup (Inventory - Purchase)",
     pricing_perc_delta |-> "Markup % (Inventory - Purchase)/Purchase"]

\* DataFrame.rename(columns=rename_cols_map): labels outside the map stay
rename(columns) ==
    [i \in DOMAIN columns |->
        IF columns[i] \in DOMAIN rename_cols_map
        THEN rename_cols_map[columns[i]] ELSE columns[i]]

email_columns ==
    << "Product Name", "Purchase Price", "Inventory Price",
       "Markup (Inventory - Purchase)",
       "Markup % (Inventory - Purchase)/Purchase" >>

\* list(set(...)): a set of strings is iterated in hash order, and string
\* hashing is seeded when the interpreter starts, so every enumeration of
\* the set is an order one run of the program can produce.
list_of_set(S) == { l \in [1..Cardinality(S) -> S] : Range(l) = S }

\* Float comparison a >= b for values that are not NaN
perc_ge(a, b) ==
    \/ a = Inf(1)
    \/ b = Inf(-1)
    \/ a.kind = "num" /\ b.kind = "num" /\ a.v >= b.v

\* Where sort_values puts the rows whose key is NaN (na_position='last')
na_position_mutant(valued, nulls) == nulls \o valued

na_position(valued, nulls) == valued \o nulls

\* sort_values(by='pricing_perc_delta', ascending=False): the rows with a
\* key in descending key order, rows with equal keys in an order the
\* (unstable) default sort does not fix, then the NaN rows in table order.
sort_values(df) ==
    LET HasKey(r) == r.pricing_perc_delta # NaN
        NoKey(r) == r.pricing_perc_delta = NaN
        valued == SelectSeq(df, HasKey)
        nulls == SelectSeq(df, NoKey)
        n == Len(valued)
        Descending(f) ==
            /\ \A i, j \in 1..n : i # j => f[i] # f[j]
            /\ \A i \in 1..n : i < n =>
                  perc_ge(valued[f[i]].pricing_perc_delta,
                          valued[f[i + 1]].pricing_perc_delta)
    IN  { na_position([i \in 1..n |-> valued[f[i]]], nulls) :
            f \in { g \in [1..n -> 1..n] : Descending(g) } }

\* The results format_pricing_delta_to_html can produce for a table
format_pricing_delta_to_html(pricing_delta) ==
    IF pricing_delta = <<>>
    THEN { [empty |-> TRUE, rows |-> <<>>, html_columns |-> <<>>,
            excel_columns |-> <<>>] }
    ELSE { [empty |-> FALSE, rows |-> rows, html_columns |-> email_columns,
            excel_columns |-> email_columns \o rest] :
              rows \in sort_values(pricing_delta),
              rest \in list_of_set(Range(rename_cols_map) \ Range(email_columns)) }

FormatPurchaseTables == SeqsUpTo(PurchaseRows, MaxFormatRows)

FormatInventoryTables ==
    { <<>>,
      << [product_name |-> "Widget A", inventory_price |-> 600] >>,
      << [product_name |-> "Widget A", inventory_price |-> 600],
         [product_name |-> "Widget B", inventory_price |-> 0] >> }

FormatInit ==
    /\ purchase_transactions_df \in FormatPurchaseTables
    /\ inventory_pricing_df \in FormatInventoryTables
    /\ report = NoReport
    /\ formatted = <<>>

\* One run of the formatter on the table of the report
FormatReport ==
    /\ report.done
    /\ Len(formatted) < MaxRuns
    /\ \E out \in format_pricing_delta_to_html(report.pricing_delta_df) :
          formatted' = Append(formatted, out)
    /\ UNCHANGED deltaVars

(***************************************************************************)
(* Record normalizers (InventoryServer / PurchaseTransactionsServer)       *)
(*                                                                         *)
(* Upstream record p of a collection has fixed synthetic content; a key    *)
(* that the upstream omits is NoName (strings) or None (numbers).          *)
(***************************************************************************)
NoName == ""

ItemAt(p) ==
    IF p % 3 = 1 THEN [FullyQualifiedName |-> NoName, UnitPrice |-> 600]
    ELSE IF p % 3 = 2 THEN [FullyQualifiedName |-> "Widget A", UnitPrice |-> 600]
    ELSE [FullyQualifiedName |-> "Widget B", UnitPrice |-> None]

BillAt(p) ==
    IF p % 2 = 1
    THEN [TxnDate |-> "2025-07-31",
          Line |-> << [Amount |-> 1000, detail |-> TRUE, name |-> "Widget B",
                       Qty |-> 0, UnitPrice |-> 500, Description |-> NoName] >>]
    ELSE [TxnDate |-> "2025-07-31",
          Line |-> << [Amount |-> 1000, detail |-> TRUE, name |-> "Widget A",
                       Qty |-> 2, UnitPrice |-> 500, Description |-> NoName],
                      [Amount |-> 100, detail |-> FALSE, name |-> NoName,
                       Qty |-> None, UnitPrice |-> None, Description |-> NoName] >>]

GetName(v, d) == IF v = NoName THEN d ELSE v

RECURSIVE Flatten(_)
Flatten(ss) == IF ss = <<>> THEN <<>> ELSE Head(ss) \o Flatten(Tail(ss))

\* The response document of a fetched page as _extract_cols sees it: whether
\* "QueryResponse" and the collection key are present, and the records.
Materialize(kind, page) ==
    [kind |-> kind, QueryResponse |-> TRUE, key |-> page.key,
     records |-> [k \in 1..page.n |->
                     IF kind = "inventory" THEN ItemAt(page.start + k - 1)
                     ELSE BillAt(page.start + k - 1)]]

\* if inventory_info['product_name'] == 'N/A': continue
item_skipped_mutant(product_name) == FALSE

item_skipped(product_name) == product_name = "N/A"

\* Body of the loop of InventoryServer._extract_cols
rows_of_item(item_data) ==
    LET product_name == GetName(item_data.FullyQualifiedName, "N/A")
    IN  IF item_skipped(product_name) THEN <<>>
        ELSE << [product_name |-> product_name,
                 inventory_price |-> Get(item_data.UnitPrice, 0)] >>

\* InventoryServer._extract_cols: response['QueryResponse'] raises KeyError
\* when absent; .get('Item', []) reads a missing collection key as no items.
extract_cols_inventory(response) ==
    IF ~response.QueryResponse THEN [raised |-> TRUE, rows |-> <<>>]
    ELSE LET items == IF response.key THEN response.records ELSE <<>>
         IN  [raised |-> FALSE,
              rows |-> Flatten([k \in 1..Len(items) |-> rows_of_item(items[k])])]

\* if product_name == 'Unknown Item' or quantity == 0 or rate == 0.0
\*    or amount == 0.0: continue
line_skipped_mutant(product_name, quantity, rate, amount) ==
    product_name = "Unknown Item" \/ quantity = 0 \/ rate = 0

line_skipped(product_name, quantity, rate, amount) ==
    product_name = "Unknown Item" \/ quantity = 0 \/ rate = 0 \/ amount = 0

\* Body of the inner loop of PurchaseTransactionsServer._extract_cols
rows_of_line(transaction_date, line) ==
    LET product_name == IF line.detail THEN GetName(line.name, "Unknown Item")
                        ELSE "Unknown"
        quantity == IF line.detail THEN Get(line.Qty, 0) ELSE 0
        rate == IF line.detail THEN Get(line.UnitPrice, 0) ELSE 0
        amount == Get(line.Amount, 0)
    IN  IF line_skipped(product_name, quantity, rate, amount) THEN <<>>
        ELSE << [product_name |-> product_name,
                 purchase_quantity |-> quantity,
                 purchase_price |-> rate,
                 purchase_amount |-> amount,
                 purchase_transaction_date |-> transaction_date] >>

\* PurchaseTransactionsServer._extract_cols:
\* response['QueryResponse']['Bill'] raises KeyError when either key is absent
extract_cols_purchase(response) ==
    IF ~response.QueryResponse \/ ~response.key THEN [raised |-> TRUE, rows |-> <<>>]
    ELSE LET bills == response.records
             RowsOfBill(bill) ==
                 Flatten([j \in 1..Len(bill.Line) |->
                             rows_of_line(GetName(bill.TxnDate, "N/A"), bill.Line[j])])
         IN  [raised |-> FALSE,
              rows |-> Flatten([k \in 1..Len(bills) |-> RowsOfBill(bills[k])])]

extract_cols(response) ==
    IF response.kind = "inventory" THEN extract_cols_inventory(response)
    ELSE extract_cols_purchase(response)

\* serve(): pd.concat of the rows of every response, in order
serve_rows(kind, responses) ==
    Flatten([k \in 1..Len(responses) |->
                extract_cols(Materialize(kind, responses[k])).rows])

\* serve() raises when _extract_cols raises for one of the responses
serve_raises(kind, responses) ==
    \E k \in 1..Len(responses) : extract_cols(Materialize(kind, responses[k])).raised

(***************************************************************************)
(* The normalizers on their own: a response drawn from bounded sets of     *)
(* records is handed to _extract_cols.                                     *)
(***************************************************************************)
ItemRecords ==
    { [FullyQualifiedName |-> name, UnitPrice |-> price] :
        name \in {NoName, "Widget A", "Widget B"}, price \in {None, 0, 600} }

GoodLine ==
    [Amount |-> 1000, detail |-> TRUE, name |-> "Widget A", Qty |-> 2,
     UnitPrice |-> 500, Description |-> NoName]

\* The good line and the lines that differ from it in one field, and the
\* line with every value 0
LineShapes ==
    { GoodLine,
      [GoodLine EXCEPT !.name = NoName],
      [GoodLine EXCEPT !.detail = FALSE],
      [GoodLine EXCEPT !.Qty = 0], [GoodLine EXCEPT !.Qty = None],
      [GoodLine EXCEPT !.UnitPrice = 0], [GoodLine EXCEPT !.UnitPrice = None],
      [GoodLine EXCEPT !.Amount = 0], [GoodLine EXCEPT !.Amount = None],
      [GoodLine EXCEPT !.Qty = 0, !.UnitPrice = 0, !.Amount = 0] }

LineRecords ==
    { [l EXCEPT !.Description = d] : l \in LineShapes, d \in {NoName, "red", "blue"} }

BillRecords ==
    { [TxnDate |-> "2025-07-31", Line |-> ls] : ls \in SeqsUpTo(LineRecords, MaxLines) }

Shaped(kind, recs) ==
    { [kind |-> kind, QueryResponse |-> TRUE, key |-> TRUE, records |-> r] : r \in recs }
    \cup { [kind |-> kind, QueryResponse |-> q, key |-> FALSE, records |-> <<>>] :
              q \in BOOLEAN }

NormPages ==
    Shaped("inventory", SeqsUpTo(ItemRecords, MaxItems))
    \cup Shaped("purchase", SeqsUpTo(BillRecords, 1))

NormInit ==
    /\ raw_page \in NormPages
    /\ extracted = NoTable

\* _extract_cols(response) of the server of raw_page.kind
ExtractCols ==
    /\ ~extracted.done
    /\ LET r == extract_cols(raw_page)
       IN  extracted' = [done |-> TRUE, raised |-> r.raised, rows |-> r.rows]
    /\ UNCHANGED raw_page

(***************************************************************************)
(* Scheduled batch run (QBOReportScheduler) over PricingDeltaServer.serve  *)
(***************************************************************************)
\* strftime("%H:%M") of the instant in the job's timezone, as minutes of day
HHMM(ts, user_timezone) == ((ts + user_timezone) % 86400) \div 60

\* QBOReportScheduler.is_last_run_expired
is_last_run_expired_mutant(last_run, daily_schedule_time, user_timezone) ==
    HHMM(last_run, user_timezone) <= daily_schedule_time

is_last_run_expired(last_run, daily_schedule_time, user_timezone) ==
    HHMM(last_run, user_timezone) < daily_schedule_time

\* QBOReportScheduler.get_jobs_to_run
get_jobs_to_run(jb, order) ==
    LET Due(r) == \/ jb[r].last_run_ts = None
                  \/ is_last_run_expired(jb[r].last_run_ts, jb[r].daily_schedule_time,
                                         jb[r].user_timezone)
    IN  SelectSeq(order, Due)

\* QBOReportScheduler.update_job_run
update_job_run(jb, realm_id, t) ==
    IF realm_id \in DOMAIN jb THEN [jb EXCEPT ![realm_id].last_run_ts = t] ELSE jb

CurrentRealm == batch.jobs_to_run[batch.i]

\* generate_and_send_report_for_company_config for job k, up to the first
\* statement of serve(): the purchase retriever is built, no save path.
StartJob(k, todo) ==
    /\ pc' = "purchase"
    /\ rt' = new_retriever("purchase", todo[k], FALSE)
    /\ purchase_transactions_df' = <<>>
    /\ inventory_pricing_df' = <<>>
    /\ report' = [done |-> FALSE, joined |-> FALSE, pricing_delta_df |-> <<>>, message |-> ""]

\* run_scheduled_jobs, up to the first job
RunScheduledJobs ==
    /\ batch.status = "idle"
    /\ LET todo == get_jobs_to_run(jobs, job_order)
       IN  IF todo = <<>>
           THEN /\ batch' = [jobs_to_run |-> todo, i |-> 0, status |-> "finished"]
                /\ UNCHANGED <<pc, rt, deltaVars>>
           ELSE /\ batch' = [jobs_to_run |-> todo, i |-> 1, status |-> "running"]
                /\ StartJob(1, todo)
    /\ UNCHANGED <<authVars, upstream, log_file, jobs, job_order, outbox, results, normVars, formatVars, fileVars, raceVars>>

\* serve() of an intent server goes on to _extract_cols when retrieve()
\* has returned, that is after the last page
retrieve_returned_mutant(r) == r.status \in {"running", "returned"} /\ r.responses # <<>>

retrieve_returned(r) == r.status = "returned"

\* purchase_transactions_server.serve() returned; inventory_server.serve() starts
ServePurchase ==
    /\ batch.status = "running"
    /\ pc = "purchase"
    /\ retrieve_returned(rt)
    /\ ~serve_raises("purchase", rt.responses)
    /\ purchase_transactions_df' = serve_rows("purchase", rt.responses)
    /\ rt' = new_retriever("inventory", CurrentRealm, FALSE)
    /\ pc' = "inventory"
    /\ UNCHANGED <<authVars, upstream, log_file, inventory_pricing_df, report, batchVarsButPc, normVars, formatVars, fileVars, raceVars>>

\* inventory_server.serve() returned; the tables are turned into the report
ServeInventory ==
    /\ batch.status = "running"
    /\ pc = "inventory"
    /\ retrieve_returned(rt)
    /\ inventory_pricing_df' = serve_rows("inventory", rt.responses)
    /\ report' = serve_tables(purchase_transactions_df, inventory_pricing_df')
    /\ pc' = "send"
    /\ UNCHANGED <<authVars, retrVars, purchase_transactions_df, batchVarsButPc, normVars, formatVars, fileVars, raceVars>>

\* An exception of a retriever passes through serve() (logged, re-raised),
\* through generate_and_send_report_for_company_config and through the loop
\* of run_scheduled_jobs.
ServeRaises ==
    /\ batch.status = "running"
    /\ pc \in {"purchase", "inventory"}
    /\ \/ rt.status = "raised"
       \/ rt.status = "returned" /\ serve_raises(rt.kind, rt.responses)
    /\ results' = [results EXCEPT ![CurrentRealm] = "raised_retrieval"]
    /\ batch' = [batch EXCEPT !.status = "raised"]
    /\ pc' = "idle"
    /\ UNCHANGED <<authVars, retrVars, deltaVars, jobs, job_order, outbox, normVars, formatVars, fileVars, raceVars>>

\* What serve() returns after email_sender.send_email(html, excel_data)
\* returned `sent`: the result of send_email is not looked at.
serve_result(sent) == TRUE

\* email_sender.send_email and the rest of the job: serve returns, the
\* scheduler updates last_run_ts on success, the loop moves to the next job.
SendEmail ==
    /\ batch.status = "running"
    /\ pc = "send"
    /\ \E outcome \in {"true", "false", "raised"} :
        /\ outbox' = Append(outbox, [realm |-> CurrentRealm, message |-> report.message,
                                     outcome |-> outcome])
        /\ IF outcome = "raised"
           THEN /\ results' = [results EXCEPT ![CurrentRealm] = "raised_email"]
                /\ batch' = [batch EXCEPT !.status = "raised"]
                /\ pc' = "idle"
                /\ UNCHANGED <<jobs, rt, deltaVars>>
           ELSE LET success == serve_result(outcome = "true")
                IN  /\ results' = [results EXCEPT ![CurrentRealm] =
                                      IF success THEN "success" ELSE "failure"]
                    /\ jobs' = IF success THEN update_job_run(jobs, CurrentRealm, now)
                               ELSE jobs
                    /\ IF batch.i < Len(batch.jobs_to_run)
                       THEN /\ batch' = [batch EXCEPT !.i = @ + 1]
                            /\ StartJob(batch.i + 1, batch.jobs_to_run)
                       ELSE /\ batch' = [batch EXCEPT !.status = "finished"]
                            /\ pc' = "idle"
                            /\ UNCHANGED <<rt, deltaVars>>
    /\ UNCHANGED <<authVars, upstream, log_file, job_order, normVars, formatVars, fileVars, raceVars>>

AllConnected ==
    [r \in Tenants |->
        LET first == IF r = "r1" THEN 1 ELSE 3
        IN  store_tokens(<< >>, r,
                [access_token |-> first, refresh_token |-> first + 1, expires_in |-> 1800,
                 x_refresh_token_expires_in |-> CHOOSE x \in RefreshTokenTTLs : TRUE], 0)[r]]

\* Inventory sizes of a batch: small ones and one of two pages
BatchInventorySizes == 0..MaxBatchUpstream \cup {page_size + 1}

JobRows ==
    { [daily_schedule_time |-> hhmm, user_timezone |-> -28800, last_run_ts |-> ran] :
        hhmm \in {540, 1020}, ran \in {None, 0} }

BatchInit ==
    /\ now \in {0, 1800}
    /\ \E S \in SUBSET Tenants : store = [r \in S |-> AllConnected[r]]
    /\ issued = 4
    /\ last = NoOp
    /\ \E mp \in 0..MaxBatchUpstream, mi \in BatchInventorySizes :
          upstream = [r \in Tenants |-> [k \in Kinds |-> IF k = "purchase" THEN mp ELSE mi]]
    /\ rt = NoRetriever
    /\ log_file = NoFile
    /\ DeltaIdle
    /\ NormIdle
    /\ formatted = <<>>
    /\ FileIdle
    /\ RaceIdle
    /\ jobs \in [Tenants -> JobRows]
    /\ job_order \in {<<"r1", "r2">>, <<"r2", "r1">>}
    /\ batch = [jobs_to_run |-> <<>>, i |-> 0, status |-> "idle"]
    /\ pc = "idle"
    /\ outbox = <<>>
    /\ results = [r \in Tenants |-> "none"]

BatchNext ==
    \/ RunScheduledJobs
    \/ RetrieveStart
    \/ CallApiOnce
    \/ ServePurchase
    \/ ServeInventory
    \/ ServeRaises
    \/ SendEmail

(***************************************************************************)
(* The scheduler over several invocations                                  *)
(*                                                                         *)
(* run_scheduled_jobs as one step: the selection, then for each selected   *)
(* job in order the report (which succeeds, fails or raises) and, after a  *)
(* success, update_job_run.  Between invocations the clock advances.       *)
(***************************************************************************)
MaxSchedTime == 172800
SchedSteps == {21600}

JobOutcomes == {"success", "failure", "raised"}

CronRun ==
    /\ batch.status = "idle"
    /\ LET todo == get_jobs_to_run(jobs, job_order)
       IN  \E outcome \in [1..Len(todo) -> JobOutcomes] :
             LET Reached(k) == \A j \in 1..(k - 1) : outcome[j] # "raised"
                 Succeeded(r) ==
                     \E k \in 1..Len(todo) :
                         todo[k] = r /\ Reached(k) /\ outcome[k] = "success"
                 Raised == \E k \in 1..Len(todo) : outcome[k] = "raised"
             IN  /\ batch' = [jobs_to_run |-> todo, i |-> Len(todo),
                              status |-> IF Raised THEN "raised" ELSE "finished"]
                 /\ jobs' = [r \in DOMAIN jobs |->
                                IF Succeeded(r) THEN update_job_run(jobs, r, now)[r]
                                ELSE jobs[r]]
    /\ UNCHANGED <<authVars, retrVars, deltaVars, job_order, pc, outbox, results,
                   normVars, formatVars, fileVars, raceVars>>

\* The invocation is over and the next one comes SchedSteps later
CronTick ==
    /\ batch.status # "idle"
    /\ \E d \in SchedSteps :
          /\ now + d <= MaxSchedTime
          /\ now' = now + d
    /\ batch' = [jobs_to_run |-> <<>>, i |-> 0, status |-> "idle"]
    /\ UNCHANGED <<store, issued, last, retrVars, deltaVars, jobs, job_order, pc, outbox,
                   results, normVars, formatVars, fileVars, raceVars>>

\* Job rows: a schedule time that a run can hit to the minute (10:00) and
\* one that it cannot (17:00), never run or last run at instant 0 (16:00)
SchedJobRows ==
    { [daily_schedule_time |-> hhmm, user_timezone |-> -28800, last_run_ts |-> ran] :
        hhmm \in {600, 1020}, ran \in {None, 0} }

SchedInit ==
    /\ now = 0
    /\ store = AllConnected
    /\ issued = 4
    /\ last = NoOp
    /\ upstream = [r \in Tenants |-> [k \in Kinds |-> 0]]
    /\ rt = NoRetriever
    /\ log_file = NoFile
    /\ DeltaIdle
    /\ NormIdle
    /\ formatted = <<>>
    /\ FileIdle
    /\ RaceIdle
    /\ jobs \in [Tenants -> SchedJobRows]
    /\ job_order \in {<<"r1", "r2">>, <<"r2", "r1">>}
    /\ batch = [jobs_to_run |-> <<>>, i |-> 0, status |-> "idle"]
    /\ pc = "idle"
    /\ outbox = <<>>
    /\ results = [r \in Tenants |-> "none"]

SchedNext == CronRun \/ CronTick

(***************************************************************************)
(* Claims about the batch run                                              *)
(***************************************************************************)
Delivered(t) ==
    \E k \in 1..Len(outbox) : outbox[k].realm = t /\ outbox[k].outcome = "true"

Attempted(t) == \E k \in 1..Len(outbox) : outbox[k].realm = t

\* C6: a tenant's run that fails at any step is never reported successful:
\* the run counts as a success, and last_run_ts is updated, only when the
\* email send succeeded, and a run that failed before the send step has
\* sent no email.
C6_FailedRunNotSuccessful ==
    \A t \in Tenants :
        /\ results[t] = "success" => Delivered(t)
        /\ results[t] = "raised_retrieval" => ~Attempted(t)

\* C7: in a batch, the failure of one tenant's credential or retrieval
\* never reaches the batch driver as an exception, and once the batch is
\* over every due tenant has been processed (reported or skipped).
C7_FailingTenantIsSkipped ==
    /\ (batch.status = "raised") => (\A t \in Tenants : results[t] # "raised_retrieval")
    /\ (batch.status \in {"finished", "raised"}
          /\ \A t \in Tenants : results[t] # "raised_email")
          => \A k \in 1..Len(batch.jobs_to_run) : results[batch.jobs_to_run[k]] # "none"

(***************************************************************************)
(* Claims about the delta computation                                      *)
(***************************************************************************)
PurchasePart(row) ==
    [product_name |-> row.product_name,
     purchase_quantity |-> row.purchase_quantity,
     purchase_price |-> row.purchase_price,
     purchase_amount |-> row.purchase_amount,
     purchase_transaction_date |-> row.purchase_transaction_date]

\* Number of inventory rows with the product_name of purchase row i
Matches(i) ==
    Cardinality({ k \in 1..Len(inventory_pricing_df) :
                    inventory_pricing_df[k].product_name
                        = purchase_transactions_df[i].product_name })

\* Rows the output holds for purchase row i
Mult(i) == IF Matches(i) = 0 THEN 1 ELSE Matches(i)

RECURSIVE RowsBefore(_)
RowsBefore(i) == IF i <= 1 THEN 0 ELSE RowsBefore(i - 1) + Mult(i - 1)

MatchedAsJoined(out) ==
    \A j \in 1..Len(out) :
        LET hit == \E k \in 1..Len(inventory_pricing_df) :
                      inventory_pricing_df[k].product_name = out[j].product_name
        IN  /\ (out[j].matched = "both") <=> hit
            /\ (out[j].matched = "left_only") <=> ~hit
            /\ ~hit => out[j].inventory_price = NaN
            /\ hit => \E k \in 1..Len(inventory_pricing_df) :
                         /\ inventory_pricing_df[k].product_name = out[j].product_name
                         /\ out[j].inventory_price = Num(inventory_pricing_df[k].inventory_price)
            /\ \E i \in 1..Len(purchase_transactions_df) :
                  purchase_transactions_df[i].product_name = out[j].product_name

\* C8 as stated: with both tables non-empty the output holds every purchase
\* row exactly once, in purchase-table order, matched or not.
C8_EveryPurchaseRowExactlyOnce ==
    report.joined =>
        LET out == report.pricing_delta_df
        IN  /\ Len(out) = Len(purchase_transactions_df)
            /\ \A i \in 1..Len(out) : PurchasePart(out[i]) = purchase_transactions_df[i]
            /\ MatchedAsJoined(out)

\* C8 (amended): with both tables non-empty the output holds the purchase
\* rows in purchase-table order, each once per inventory row with the same
\* product_name and once when there is none (so exactly once whenever inventory
\* product names are unique); it has no row for a product without a purchase
\* row; a row is "both" exactly when an inventory row has the identical
\* product_name and otherwise left_only with a null inventory_price.
C8_LeftJoinWithFanOut ==
    report.joined =>
        LET out == report.pricing_delta_df
        IN  /\ Len(out) = RowsBefore(Len(purchase_transactions_df) + 1)
            /\ \A i \in 1..Len(purchase_transactions_df) :
                  \A j \in (RowsBefore(i) + 1)..(RowsBefore(i) + Mult(i)) :
                      PurchasePart(out[j]) = purchase_transactions_df[i]
            /\ MatchedAsJoined(out)

C8_Witness ==
    /\ report.joined
    /\ Len(purchase_transactions_df) = 2
    /\ \E j \in 1..Len(report.pricing_delta_df) : report.pricing_delta_df[j].matched = "both"
    /\ \E j \in 1..Len(report.pricing_delta_df) : report.pricing_delta_df[j].matched = "left_only"
    /\ \E k \in 1..Len(inventory_pricing_df) :
          \A i \in 1..Len(purchase_transactions_df) :
              purchase_transactions_df[i].product_name # inventory_pricing_df[k].product_name

NonEmptyPurchaseEmptyInventory ==
    /\ report.done
    /\ purchase_transactions_df # <<>>
    /\ inventory_pricing_df = <<>>

\* C9 as stated: non-empty purchase table and empty inventory table give one
\* left_only row per purchase row with null inventory_price and pricing_delta.
C9_LeftOnlyRowsForEmptyInventory ==
    NonEmptyPurchaseEmptyInventory =>
        LET out == report.pricing_delta_df
        IN  /\ Len(out) = Len(purchase_transactions_df)
            /\ \A j \in 1..Len(out) :
                  /\ out[j].inventory_price = NaN
                  /\ out[j].matched = "left_only"
                  /\ out[j].pricing_delta = NaN

\* C9 (amended): non-empty purchase table and empty inventory table give a
\* result without any row (no left_only rows are produced); the report
\* carries a no-data message instead of a table.
C9_NoRowsForEmptyInventory ==
    NonEmptyPurchaseEmptyInventory =>
        /\ report.pricing_delta_df = <<>>
        /\ report.message # ""

C9_Witness ==
    /\ NonEmptyPurchaseEmptyInventory
    /\ Len(purchase_transactions_df) = 1
    /\ purchase_transactions_df[1].product_name = "Widget B"
    /\ purchase_transactions_df[1].purchase_price = 500

\* C10: an empty purchase or inventory table gives an empty result without
\* the join being run; the message is "No purchase transactions found"
\* exactly when the purchase table is empty and "No inventory pricing found"
\* exactly when the purchase table is non-empty and the inventory table empty.
C10_EmptyReasonByTable ==
    report.done =>
        /\ (purchase_transactions_df = <<>> \/ inventory_pricing_df = <<>>)
              => (~report.joined /\ report.pricing_delta_df = <<>>)
        /\ (report.message = "No purchase transactions found")
              <=> (purchase_transactions_df = <<>>)
        /\ (report.message = "No inventory pricing found")
              <=> (purchase_transactions_df # <<>> /\ inventory_pricing_df = <<>>)

C10_Witness ==
    /\ report.done
    /\ purchase_transactions_df = <<>>
    /\ inventory_pricing_df = <<>>
    /\ report.message = "No purchase transactions found"

Abs(x) == IF x < 0 THEN -x ELSE x

\* x (hundredths of a percent) is d / p * 100 rounded to 2 decimal places
NearestHundredth(x, d, p) == 2 * Abs(x * p - d * 10000) <= Abs(p)

\* C11: every output row with an inventory match has pricing_delta =
\* inventory_price - purchase_price and pricing_perc_delta = pricing_delta /
\* purchase_price * 100 rounded to 2 decimal places (5.00 and 6.00 give 1.00
\* and 20.00, matched = both; a quotient by 0 is no finite number); every
\* unmatched row has both values null.
C11_DeltaAndPercent ==
    report.joined =>
        \A j \in 1..Len(report.pricing_delta_df) :
            LET row == report.pricing_delta_df[j]
            IN  IF row.matched = "both"
                THEN /\ row.inventory_price.kind = "num"
                     /\ row.pricing_delta =
                            Num(row.inventory_price.v - row.purchase_price)
                     /\ row.purchase_price # 0 =>
                            /\ row.pricing_perc_delta.kind = "num"
                            /\ NearestHundredth(row.pricing_perc_delta.v,
                                                row.pricing_delta.v, row.purchase_price)
                     /\ row.purchase_price = 0 => row.pricing_perc_delta.kind # "num"
                     /\ (row.purchase_price = 500 /\ row.inventory_price = Num(600)) =>
                            /\ row.pricing_delta = Num(100)
                            /\ row.pricing_perc_delta = Num(2000)
                ELSE /\ row.pricing_delta = NaN
                     /\ row.pricing_perc_delta = NaN

C11_Witness ==
    /\ report.joined
    /\ \E j \in 1..Len(report.pricing_delta_df) :
          LET row == report.pricing_delta_df[j]
          IN  /\ row.matched = "both"
              /\ row.purchase_price = 700
              /\ row.inventory_price = Num(600)
              /\ row.pricing_perc_delta = Num(-1429)
    /\ \E j \in 1..Len(report.pricing_delta_df) :
          report.pricing_delta_df[j].matched = "left_only"

LinesOf(page) ==
    IF page.kind = "purchase" /\ page.key /\ page.records # <<>>
    THEN page.records[1].Line ELSE <<>>

\* The line has an item name and non-zero quantity, rate and amount
Retained(line) ==
    /\ line.detail
    /\ line.name # NoName
    /\ line.Qty \notin {None, 0}
    /\ line.UnitPrice \notin {None, 0}
    /\ line.Amount \notin {None, 0}

PurchaseRowOf(bill, line) ==
    [product_name |-> line.name, purchase_quantity |-> line.Qty,
     purchase_price |-> line.UnitPrice, purchase_amount |-> line.Amount,
     purchase_transaction_date |-> bill.TxnDate]

\* C13: purchase normalization retains a bill line if and only if its
\* quantity, rate and amount are all non-zero and its product name is not the
\* "Unknown Item" sentinel: the table is the retained lines in order, and
\* every row has non-zero purchase_quantity, purchase_price, purchase_amount.
C13_RetainedIffAllNonZero ==
    (extracted.done /\ raw_page.kind = "purchase" /\ raw_page.key
        /\ raw_page.records # <<>>) =>
        LET bill == raw_page.records[1]
            kept == SelectSeq(bill.Line, Retained)
        IN  /\ ~extracted.raised
            /\ extracted.rows = [k \in 1..Len(kept) |-> PurchaseRowOf(bill, kept[k])]
            /\ \A k \in 1..Len(extracted.rows) :
                  /\ extracted.rows[k].purchase_quantity # 0
                  /\ extracted.rows[k].purchase_price # 0
                  /\ extracted.rows[k].purchase_amount # 0

C13_Witness ==
    /\ extracted.done
    /\ Len(LinesOf(raw_page)) = 2
    /\ LinesOf(raw_page)[1] = [GoodLine EXCEPT !.Amount = 0]
    /\ LinesOf(raw_page)[2] = GoodLine
    /\ Len(extracted.rows) = 1

HasIdentity(item) == item.FullyQualifiedName # NoName

InventoryRowOf(item) ==
    [product_name |-> item.FullyQualifiedName,
     inventory_price |-> IF item.UnitPrice = None THEN 0 ELSE item.UnitPrice]

\* C14: inventory normalization of a page yields one row per item that has a
\* product identity, in page order, with the unit price or 0 when absent; an
\* item without identity gives no row; a page of such items, or an empty
\* page, gives an empty table without raising.
C14_OneRowPerIdentifiedItem ==
    (extracted.done /\ raw_page.kind = "inventory" /\ raw_page.key) =>
        LET kept == SelectSeq(raw_page.records, HasIdentity)
        IN  /\ ~extracted.raised
            /\ extracted.rows = [k \in 1..Len(kept) |-> InventoryRowOf(kept[k])]

C14_Witness ==
    /\ extracted.done
    /\ raw_page.kind = "inventory"
    /\ Len(raw_page.records) = 2
    /\ raw_page.records[1].FullyQualifiedName = NoName
    /\ raw_page.records[2] = [FullyQualifiedName |-> "Widget B", UnitPrice |-> None]
    /\ extracted.rows = << [product_name |-> "Widget B", inventory_price |-> 0] >>

\* C15: normalizing a page without the expected collection key ("Item" /
\* "Bill") raises, for both kinds, while a page that has the key with an empty
\* list yields zero rows without error.
C15_MissingKeyRaises ==
    extracted.done =>
        /\ ~raw_page.key => extracted.raised
        /\ (raw_page.key /\ raw_page.records = <<>>)
              => (~extracted.raised /\ extracted.rows = <<>>)

\* C16: a line with a description gets it appended to the product name, so
\* two retained lines of the same item with different descriptions give rows
\* with different product_name; a line without description keeps the bare
\* item name.
C16_DescriptionMakesDistinctProducts ==
    (extracted.done /\ raw_page.kind = "purchase" /\ ~extracted.raised
        /\ Len(extracted.rows) = Len(LinesOf(raw_page))) =>
        LET lines == LinesOf(raw_page)
        IN  /\ \A i \in 1..Len(lines) :
                  lines[i].Description = NoName
                      => extracted.rows[i].product_name = lines[i].name
            /\ \A i, j \in 1..Len(lines) :
                  (lines[i].name = lines[j].name
                      /\ lines[i].Description # lines[j].Description)
                      => extracted.rows[i].product_name # extracted.rows[j].product_name

(***************************************************************************)
(* Claims about the paginated retriever                                    *)
(***************************************************************************)
UpstreamOf(r) == upstream[r.realm_id][r.kind]

\* C4: a run stops right after the first page with fewer than page_size
\* items and issues no further query, and when the upstream has no matching
\* record (first answer has 0 items, collection key present or absent) the
\* run returns a list of exactly one page and raises no error.
C4_StopsAtFirstShortPage ==
    /\ \A k \in 1..Len(rt.responses) :
          rt.responses[k].n < page_size
              => (k = Len(rt.responses) /\ Len(rt.queries) = k)
    /\ (rt.answers # <<>> /\ rt.answers[1].n = 0)
          => (rt.status = "returned" /\ Len(rt.responses) = 1 /\ rt.error = "")

\* Number of fetched pages that contain upstream record p
TimesFetched(r, p) ==
    Cardinality({ k \in 1..Len(r.responses) :
                    r.responses[k].start <= p
                    /\ p < r.responses[k].start + r.responses[k].n })

\* C5: for both kinds the k-th query selects the window that starts at
\* 1 + (k-1)*page_size, the run needs at most M/page_size + 1 queries, and
\* the returned pages contain every upstream record exactly once.
C5_PagesCoverUpstreamOnce ==
    /\ \A k \in 1..Len(rt.answers) : rt.answers[k].start = 1 + (k - 1) * page_size
    /\ Len(rt.queries) <= (UpstreamOf(rt) \div page_size) + 1
    /\ rt.status = "returned"
          => \A p \in 1..UpstreamOf(rt) : TimesFetched(rt, p) = 1

(***************************************************************************)
(* Claims about the credential lifecycle                                   *)
(***************************************************************************)
IsTokenOp == last.op \in {"refresh", "get_valid"}

\* C1: when the token-endpoint call of a refresh fails, refresh and
\* get_valid_access_token return None and the whole credential store is
\* exactly what it was before the call (the expired credential is neither
\* cleared nor deleted).
C1_FailedRefreshKeepsCredential ==
    (IsTokenOp /\ last.called /\ ~last.response.ok)
        => /\ last.ret = None
           /\ store = last.pre

C1_Witness ==
    /\ last.op = "get_valid"
    /\ last.called
    /\ ~last.response.ok
    /\ last.realm \in DOMAIN store
    /\ store[last.realm].expires_at <= last.at
    /\ store[last.realm].access_token # None

\* C2: for a stored credential that is expired and has a refresh token, when
\* the token endpoint answers successfully get_valid_access_token returns
\* the access token of the response and access_expires_at becomes the
\* refresh instant plus the response TTL (3600 when omitted), strictly
\* later than before.
C2_ExpiredCredentialIsRefreshed ==
    ( /\ last.op = "get_valid"
      /\ last.realm \in DOMAIN last.pre
      /\ last.pre[last.realm].access_token # None
      /\ last.pre[last.realm].refresh_token # None
      /\ last.pre[last.realm].expires_at <= last.at
      /\ last.response.ok )
        => /\ last.ret = last.response.json.access_token
           /\ store[last.realm].access_token = last.response.json.access_token
           /\ store[last.realm].expires_at =
                  last.at + Get(last.response.json.expires_in, DefaultExpiresIn)
           /\ store[last.realm].expires_at > last.pre[last.realm].expires_at

\* C3: after a successful refresh the stored refresh token is the one of the
\* response if it supplies one and the previously stored one otherwise, and
\* no stored credential ever has a null refresh token.
C3_RefreshTokenSticky ==
    /\ (IsTokenOp /\ last.called /\ last.ret # None)
          => store[last.realm].refresh_token =
                Get(last.response.json.refresh_token, last.pre[last.realm].refresh_token)
    /\ \A r \in DOMAIN store : store[r].refresh_token # None

C3_Witness ==
    /\ IsTokenOp
    /\ last.called
    /\ last.ret # None
    /\ last.response.json.refresh_token # None
    /\ store[last.realm].refresh_token = last.response.json.refresh_token
    /\ store[last.realm].refresh_token # last.pre[last.realm].refresh_token

\* C17: when a credential is stored and now < access_expires_at,
\* get_valid_access_token returns the stored access token, makes no
\* token-endpoint call and leaves the store unchanged; the endpoint is called
\* only when now >= access_expires_at.
C17_ValidTokenReturnedUnchanged ==
    last.op = "get_valid" =>
        /\ ( /\ last.realm \in DOMAIN last.pre
             /\ last.pre[last.realm].access_token # None
             /\ last.at < last.pre[last.realm].expires_at )
              => /\ last.ret = last.pre[last.realm].access_token
                 /\ ~last.called
                 /\ store = last.pre
        /\ last.called
              => /\ last.realm \in DOMAIN last.pre
                 /\ last.at >= last.pre[last.realm].expires_at

C17_Witness ==
    /\ last.op = "get_valid"
    /\ last.realm \in DOMAIN last.pre
    /\ last.at = 900
    /\ last.pre[last.realm].expires_at = 1800
    /\ last.ret = last.pre[last.realm].access_token
    /\ ~last.called

\* C18: for a tenant with no stored credential, or with a stored credential
\* whose access token is null, get_valid_access_token returns None without
\* raising, without calling the token endpoint and without creating or
\* changing any stored credential.
C18_NoCredentialIsUnavailable ==
    /\ (last.op = "get_valid" /\ last.realm \notin DOMAIN last.pre)
          => /\ last.ret = None
             /\ ~last.raised
             /\ ~last.called
             /\ store = last.pre
    /\ \A realm_id \in DOMAIN store :
          LET nulled == [store EXCEPT ![realm_id].access_token = None]
              r == get_valid_access_token_not_throws(nulled, realm_id,
                                                     FailedResponse, now)
          IN  r.ret = None /\ ~r.called /\ r.store = nulled

C18_Witness ==
    /\ last.op = "get_valid"
    /\ last.realm \notin DOMAIN last.pre
    /\ last.pre # << >>
    /\ last.ret = None
    /\ store = last.pre

C20_DisconnectIsIdempotent ==
    last.op = "disconnect" =>
        /\ ~last.raised
        /\ DOMAIN store = DOMAIN last.pre \ {last.realm}
        /\ \A r \in DOMAIN store : store[r] = last.pre[r]
        /\ last.ret = (IF last.realm \in DOMAIN last.pre THEN 1 ELSE 0)
        /\ last.realm \notin DOMAIN last.pre => store = last.pre
        /\ disconnect_company(store, last.realm) = [store |-> store, ret |-> FALSE]

C20_Witness ==
    /\ last.op = "disconnect"
    /\ last.ret = 1
    /\ last.realm \in DOMAIN last.pre
    /\ last.realm \notin DOMAIN store
    /\ store # << >>

\* C21: over any sequence of connect, get_valid_access_token, refresh and
\* disconnect, a tenant has a stored credential exactly when its most recent
\* successful connect has not been followed by a disconnect: a connect that
\* returns without error has stored the credential of the response, a failed
\* connect changes nothing, a refresh (successful or failed) never adds or
\* removes a credential, and a disconnect removes exactly the tenant's.
C21_CredentialIffConnected ==
    /\ (last.op = "connect" /\ ~last.raised)
          => /\ DOMAIN store = DOMAIN last.pre \cup {last.realm}
             /\ store[last.realm].access_token = last.response.json.access_token
    /\ (last.op = "connect" /\ last.raised) => store = last.pre
    /\ IsTokenOp => DOMAIN store = DOMAIN last.pre
    /\ last.op = "disconnect" => DOMAIN store = DOMAIN last.pre \ {last.realm}

(***************************************************************************)
(* Claims about the report formatter                                       *)
(***************************************************************************)
\* C22: for a non-empty table the email view has exactly the five columns
\* product name, purchase price, inventory price, absolute markup,
\* percentage markup in that order, and the export view holds every column
\* of the table (the matched indicator included), the five email columns
\* first, the rest in an order that is the same on every run for the same
\* table.
C22_ViewsComplete ==
    \A i \in DOMAIN formatted :
        ~formatted[i].empty =>
            /\ formatted[i].html_columns =
                  << "Product Name", "Purchase Price", "Inventory Price",
                     "Markup (Inventory - Purchase)",
                     "Markup % (Inventory - Purchase)/Purchase" >>
            /\ Range(formatted[i].excel_columns) = Range(rename(pricing_delta_columns))
            /\ SubSeq(formatted[i].excel_columns, 1, 5) = formatted[i].html_columns
            /\ \A j \in DOMAIN formatted :
                  formatted[j].excel_columns = formatted[i].excel_columns

Count(rows, r) == Cardinality({ k \in DOMAIN rows : rows[k] = r })

\* C29: the formatted rows are the rows of the table ordered by
\* pricing_perc_delta descending, every row whose pricing_perc_delta is NaN
\* after all rows that have a value, and the formatter produces a result
\* when such rows are present.
C29_SortedNullsLast ==
    /\ report.done => format_pricing_delta_to_html(report.pricing_delta_df) # {}
    /\ \A i \in DOMAIN formatted :
          LET rows == formatted[i].rows
              df == report.pricing_delta_df
          IN  /\ Len(rows) = Len(df)
              /\ \A r \in Range(df) : Count(rows, r) = Count(df, r)
              /\ \A a, b \in DOMAIN rows :
                    a < b =>
                       /\ rows[a].pricing_perc_delta = NaN
                             => rows[b].pricing_perc_delta = NaN
                       /\ rows[b].pricing_perc_delta # NaN
                             => perc_ge(rows[a].pricing_perc_delta,
                                        rows[b].pricing_perc_delta)

\* a table whose first row has no percentage and whose second row has one
\* has been formatted
C29_Witness ==
    /\ Len(formatted) > 0
    /\ Len(report.pricing_delta_df) = 2
    /\ report.pricing_delta_df[1].pricing_perc_delta = NaN
    /\ report.pricing_delta_df[2].pricing_perc_delta # NaN
    /\ formatted[1].rows[2] = report.pricing_delta_df[1]

\* C25: every page query obtains its bearer token through
\* get_valid_access_token in the step that sends it; the token is not
\* carried over from an earlier page, so when the access token has expired
\* since the previous page the query is sent with the refreshed token and
\* the run goes on.
C25_FreshTokenPerQuery ==
    [][ /\ Len(rt'.queries) > Len(rt.queries) =>
            LET q == rt'.queries[Len(rt'.queries)]
                old == store[rt.realm_id]
            IN  /\ last'.op = "get_valid" /\ last'.realm = rt.realm_id /\ last'.at = now
                /\ q.token # None
                /\ q.token = last'.ret
                /\ q.token = store'[rt.realm_id].access_token
                /\ ~is_expired(store'[rt.realm_id].expires_at, now)
                /\ IF is_expired(old.expires_at, now)
                   THEN /\ last'.called
                        /\ q.token = last'.response.json.access_token
                        /\ q.token # old.access_token
                   ELSE q.token = old.access_token
        /\ (/\ rt.status = "running"
            /\ rt.realm_id \in DOMAIN store
            /\ store'[rt.realm_id] # store[rt.realm_id])
              => /\ Len(rt'.queries) = Len(rt.queries) + 1
                 /\ rt'.error # "no_token" ]_vars

\* the second page of a run was sent with another token than the first
C25_Witness ==
    /\ Len(rt.queries) >= 2
    /\ rt.queries[1].token # rt.queries[2].token
    /\ Len(rt.responses) >= 2

\* C26: with a log path configured, each raw page is in the log as soon as
\* it has been fetched and before the next page is requested, so when the
\* query for page k fails, pages 1..k-1 are in the log.
C26_PagesLoggedAsFetched ==
    (rt.save_file_path /\ rt.status \in {"running", "raised", "returned"})
        => log_file.lines = dump_all(rt.responses)

AllPagesFetched(responses) ==
    /\ responses # <<>>
    /\ \A i \in DOMAIN responses :
          IF i = Len(responses) THEN responses[i].n < page_size
          ELSE responses[i].n = page_size

\* C27: within one tenant's run the delta computation starts only after the
\* purchase retrieval and the inventory retrieval have both fetched their
\* last page and every page has been normalized; it never runs on a partial
\* table, and when a retrieval fails neither the delta computation nor the
\* email send happens.
C27_JoinBarrier ==
    /\ [](\A r \in Tenants :
             results[r] = "raised_retrieval"
                => \A i \in DOMAIN outbox : outbox[i].realm # r)
    /\ [][ /\ (pc = "purchase" /\ pc' = "inventory")
                => /\ rt.kind = "purchase" /\ rt.status = "returned"
                   /\ AllPagesFetched(rt.responses)
                   /\ purchase_transactions_df' = serve_rows("purchase", rt.responses)
           /\ purchase_transactions_df' # purchase_transactions_df
                => \/ pc = "purchase" /\ pc' = "inventory"
                   \/ pc' = "purchase" /\ purchase_transactions_df' = <<>>
           /\ (report'.done /\ ~report.done)
                => /\ pc = "inventory" /\ pc' = "send"
                   /\ rt.kind = "inventory" /\ rt.status = "returned"
                   /\ AllPagesFetched(rt.responses)
                   /\ purchase_transactions_df' = purchase_transactions_df
                   /\ inventory_pricing_df' = serve_rows("inventory", rt.responses)
                   /\ report' = serve_tables(purchase_transactions_df', inventory_pricing_df')
           /\ outbox' # outbox => (pc = "send" /\ report.done)
           /\ (\E r \in Tenants :
                  results'[r] = "raised_retrieval" /\ results[r] # "raised_retrieval")
                => (~report.done /\ ~report'.done /\ outbox' = outbox) ]_vars

\* the report of a tenant was joined after a two-page inventory retrieval
C27_Witness ==
    /\ pc = "send"
    /\ report.done /\ report.joined
    /\ rt.kind = "inventory" /\ Len(rt.responses) = 2

Selected(b, r) == \E k \in DOMAIN b.jobs_to_run : b.jobs_to_run[k] = r

RanAtOrAfterSchedule(job) ==
    /\ job.last_run_ts # None
    /\ HHMM(job.last_run_ts, job.user_timezone) >= job.daily_schedule_time

\* C30: a batch run selects a job exactly when the job has never run or the
\* HH:MM of its last run, in the job's timezone, is earlier than its daily
\* schedule time, whatever the current time and the date of the last run;
\* a job whose last run was recorded at or after its schedule time is not
\* selected by any later run, and a job whose last run was recorded before
\* it is selected by every run until a run is recorded.
C30_SelectionByLastRunClockTime ==
    [][ /\ (batch.status = "idle" /\ batch'.status # "idle")
             => \A r \in Tenants :
                   Selected(batch', r) <=>
                      \/ jobs[r].last_run_ts = None
                      \/ HHMM(jobs[r].last_run_ts, jobs[r].user_timezone)
                            < jobs[r].daily_schedule_time
        /\ \A r \in Tenants :
              RanAtOrAfterSchedule(jobs[r])
                 => /\ jobs'[r] = jobs[r]
                    /\ batch' # batch => ~Selected(batch', r)
        /\ \A r \in Tenants :
              jobs'[r] # jobs[r]
                 => /\ Selected(batch', r)
                    /\ jobs'[r] = [jobs[r] EXCEPT !.last_run_ts = now] ]_vars

\* a day or more after a run recorded after the schedule time, at a clock
\* time past the schedule time, a batch run has left the job out
C30_Witness ==
    /\ batch.status = "finished"
    /\ \E r \in Tenants :
          /\ RanAtOrAfterSchedule(jobs[r])
          /\ now - jobs[r].last_run_ts >= 86400
          /\ HHMM(now, jobs[r].user_timezone) >= jobs[r].daily_schedule_time
          /\ ~Selected(batch, r)
          /\ \E q \in Tenants : Selected(batch, q)

(***************************************************************************)
(* Claims about the raw-page log                                           *)
(***************************************************************************)
RECURSIVE PagesOf(_)
PagesOf(runs) ==
    IF runs = <<>> THEN <<>> ELSE Head(runs).responses \o PagesOf(Tail(runs))

AllRuns == Append(done_runs, rt)

\* C23: after retrieval runs with the same configured log path, the file
\* absent before the first, the file retriever returns the pages of the
\* first run followed by the pages of the next, each equal to the raw page
\* that was fetched and in fetch order; the replay of the log of a single
\* run is the page list that run returned.
C23_LogReplaysRuns ==
    (/\ replayed.done
     /\ rt.save_file_path
     /\ \A i \in DOMAIN AllRuns : AllRuns[i].status = "returned")
        => /\ ~replayed.raised
           /\ replayed.responses =
                 [i \in 1..Len(PagesOf(AllRuns)) |-> PyDict(PagesOf(AllRuns)[i])]

\* two runs of two pages each were logged and replayed
C23_Witness ==
    /\ replayed.done
    /\ rt.save_file_path
    /\ Len(done_runs) = 1
    /\ done_runs[1].status = "returned" /\ Len(done_runs[1].responses) = 2
    /\ rt.status = "returned" /\ Len(rt.responses) = 2
    /\ Len(replayed.responses) = 4

IsBlank(line) == line.json = "blank"
NotBlank(line) == ~IsBlank(line)
IsObjectLine(line) == line.json = "object"
IsLegacyLine(line) == line.json = "string" /\ line.value.json = "object"
NonBlankLines == SelectSeq(log_file.lines, NotBlank)

\* C24: the log reader returns one element per non-blank line, in file
\* order: the object of a line that is a JSON object, the inner object of a
\* line that is a JSON string holding escaped JSON; a missing file yields
\* an empty list without error.
C24_ReaderDecodesLines ==
    replayed.done =>
        /\ ~log_file.exists => (~replayed.raised /\ replayed.responses = <<>>)
        /\ (/\ log_file.exists
            /\ \A i \in DOMAIN NonBlankLines :
                  IsObjectLine(NonBlankLines[i]) \/ IsLegacyLine(NonBlankLines[i]))
              => /\ ~replayed.raised
                 /\ Len(replayed.responses) = Len(NonBlankLines)
                 /\ \A i \in DOMAIN NonBlankLines :
                       replayed.responses[i] =
                          PyDict(IF IsObjectLine(NonBlankLines[i])
                                 THEN NonBlankLines[i].value
                                 ELSE NonBlankLines[i].value.value)

\* a file holding a blank line, a legacy line and a plain line was read
C24_Witness ==
    /\ replayed.done
    /\ Len(log_file.lines) = 3
    /\ IsBlank(log_file.lines[1])
    /\ IsLegacyLine(log_file.lines[2])
    /\ IsObjectLine(log_file.lines[3])
    /\ Len(replayed.responses) = 2


Init == AuthInit
Next == AuthNext
Spec == Init /\ [][Next]_vars

SpecRetr == RetrInit /\ [][RetrNext]_vars

SpecDeltaInit ==
    /\ store = << >>
    /\ now = 0
    /\ issued = 0
    /\ last = NoOp
    /\ upstream = [r \in Tenants |-> [k \in Kinds |-> 0]]
    /\ rt = NoRetriever
    /\ log_file = NoFile
    /\ DeltaInit
    /\ BatchIdle
    /\ NormIdle
    /\ formatted = <<>>
    /\ FileIdle
    /\ RaceIdle

SpecDeltaNext == ComputeDelta /\ UNCHANGED <<authVars, retrVars, batchVars, normVars, formatVars, fileVars, raceVars>>

SpecDelta == SpecDeltaInit /\ [][SpecDeltaNext]_vars

SpecFormatInit ==
    /\ store = << >>
    /\ now = 0
    /\ issued = 0
    /\ last = NoOp
    /\ upstream = [r \in Tenants |-> [k \in Kinds |-> 0]]
    /\ rt = NoRetriever
    /\ log_file = NoFile
    /\ BatchIdle
    /\ NormIdle
    /\ FormatInit
    /\ FileIdle
    /\ RaceIdle

SpecFormatNext ==
    \/ ComputeDelta /\ UNCHANGED <<authVars, retrVars, batchVars, normVars, formatVars, fileVars, raceVars>>
    \/ FormatReport /\ UNCHANGED <<authVars, retrVars, batchVars, normVars, fileVars, raceVars>>

SpecFormat == SpecFormatInit /\ [][SpecFormatNext]_vars

SpecReplay == RetrInit /\ [][ReplayNext]_vars

SpecFile == FileInit /\ [][FileRetrieve]_vars

SpecRace == RaceInit /\ [][RaceNext]_vars

SpecSched == SchedInit /\ [][SchedNext]_vars

SpecBatch == BatchInit /\ [][BatchNext]_vars

SpecNormInit ==
    /\ store = << >>
    /\ now = 0
    /\ issued = 0
    /\ last = NoOp
    /\ upstream = [r \in Tenants |-> [k \in Kinds |-> 0]]
    /\ rt = NoRetriever
    /\ log_file = NoFile
    /\ DeltaIdle
    /\ BatchIdle
    /\ NormInit
    /\ formatted = <<>>
    /\ FileIdle
    /\ RaceIdle

SpecNormNext ==
    ExtractCols /\ UNCHANGED <<authVars, retrVars, deltaVars, batchVars, formatVars, fileVars, raceVars>>

SpecNorm == SpecNormInit /\ [][SpecNormNext]_vars

====
